---- MODULE Spec2Model ----
(***************************************************************************)
(* A model of the dirtree package: the option fold that resolves the       *)
(* configuration, the pattern matcher shouldKeepPath, and the walker of    *)
(* Write (the callback handed to filepath.WalkDir, the buffered writer in  *)
(* front of the sink, the final flush).                                    *)
(***************************************************************************)
EXTENDS Integers, Sequences, FiniteSets, TLC

\* ------------------------------------------------------------------------
\* Bounds of the model
\* ------------------------------------------------------------------------

\* number of options of one call
MaxOpts == 2
\* largest value given to the Depth option
MaxDepth == 2
\* deepest node of a tree, in path segments below the root
MaxLevels == 3
\* number of nodes of a tree, the root included
MaxNodes == 4
\* capacity of the buffered writer, in written pieces
BufCap == 4
\* number of patterns of a list handed to shouldKeepPath alone
MaxPats == 3

\* ------------------------------------------------------------------------
\* Print modes and file types (mode.go)
\* ------------------------------------------------------------------------

ModeType == 1
ModeSize == 2
ModeCRC32 == 4
ModeDefault == ModeType + ModeSize
ModeAll == ModeType + ModeSize + ModeCRC32

\* mode & bit != 0, for a bit that is a power of two
HasBit(mode, bit) == (mode \div bit) % 2 = 1

File == "File"
Dir == "Dir"
Other == "Other"
AllTypes == {File, Dir, Other}

\* The type bits of a directory entry: "f" no type bit (regular), "d" the
\* directory bit alone, "l" the symlink bit alone.
EntryModes == {"f", "d", "l"}

\* the type bits of fs.FileMode
fsModeDir == "ModeDir"
fsModeSymlink == "ModeSymlink"
fsModeNamedPipe == "ModeNamedPipe"
fsModeSocket == "ModeSocket"
fsModeDevice == "ModeDevice"
fsModeCharDevice == "ModeCharDevice"
fsModeIrregular == "ModeIrregular"
fsModeType ==
    {fsModeDir, fsModeSymlink, fsModeNamedPipe, fsModeSocket, fsModeDevice,
     fsModeCharDevice, fsModeIrregular}

\* every kind of directory entry: those of the trees, and "p" a named pipe,
\* "s" a socket, "c" a character device, "i" an irregular file, "dl" an entry
\* with both the directory bit and the symlink bit
DirEntryModes == EntryModes \cup {"p", "s", "c", "i", "dl"}

\* dirent.Type()
TypeBits(m) ==
    CASE m = "f" -> {}
      [] m = "d" -> {fsModeDir}
      [] m = "l" -> {fsModeSymlink}
      [] m = "p" -> {fsModeNamedPipe}
      [] m = "s" -> {fsModeSocket}
      [] m = "c" -> {fsModeDevice, fsModeCharDevice}
      [] m = "i" -> {fsModeIrregular}
      [] m = "dl" -> {fsModeDir, fsModeSymlink}

\* FileMode.IsRegular: m&ModeType == 0
IsRegular(m) == TypeBits(m) \cap fsModeType = {}
\* IsDir true of a symlink too
IsDirOrSymlink(m) == TypeBits(m) \cap {fsModeDir, fsModeSymlink} # {}

\* dirent.IsDir: m&ModeDir != 0
IsDir(m) == fsModeDir \in TypeBits(m)

\* filetypeFromDirEntry taking the directory bit for enough
filetypeDirBit(m) ==
    IF IsRegular(m) THEN File
    ELSE IF IsDir(m) THEN Dir
    ELSE Other

filetypeFromDirEntry(m) ==
    IF IsRegular(m) THEN File
    ELSE IF TypeBits(m) \cap fsModeType = {fsModeDir} THEN Dir
    ELSE Other

\* ------------------------------------------------------------------------
\* Formatting (mode.go)
\* ------------------------------------------------------------------------

DecDigits == <<"0", "1", "2", "3", "4", "5", "6", "7", "8", "9">>
HexDigits == DecDigits \o <<"a", "b", "c", "d", "e", "f">>

\* strconv.FormatInt(n, 10), n >= 0
RECURSIVE FormatInt(_)
FormatInt(n) ==
    IF n < 10 THEN <<DecDigits[n + 1]>>
    ELSE FormatInt(n \div 10) \o <<DecDigits[(n % 10) + 1]>>

\* the digits of fmt.Sprintf("%x", n)
RECURSIVE FormatHex(_)
FormatHex(n) ==
    IF n < 16 THEN <<HexDigits[n + 1]>>
    ELSE FormatHex(n \div 16) \o <<HexDigits[(n % 16) + 1]>>

\* k times the character c
Repeat(c, k) == [i \in 1..k |-> c]

\* fmt.Sprintf("%-*s", w, str): spaces on the right up to the width w
PadRight(str, w) ==
    IF Len(str) >= w THEN str ELSE str \o Repeat(" ", w - Len(str))

\* fmt.Sprintf("%0*x", w, n): zeros on the left up to the width w
PadZero(n, w) ==
    LET d == FormatHex(n)
    IN IF Len(d) >= w THEN d ELSE Repeat("0", w - Len(d)) \o d

\* ft.char()
char(ft) ==
    CASE ft = Dir -> "d"
      [] ft = File -> "f"
      [] ft = Other -> "?"

sizeDigits == 9

\* formatSize cutting the size to the width of the field
formatSizeTruncated(ft, size) ==
    IF ft # File THEN PadRight(<<>>, sizeDigits + 1)
    ELSE SubSeq(PadRight(FormatInt(size) \o <<"b">>, sizeDigits + 1), 1, sizeDigits + 1)

formatSize(ft, size) ==
    IF ft # File THEN PadRight(<<>>, sizeDigits + 1)
    ELSE LET str == FormatInt(size) \o <<"b">>
         IN IF Len(str) > sizeDigits THEN str
            ELSE PadRight(str, sizeDigits + 1)

\* number of chars in the hexadecimal representation of a CRC-32
crcChars == 8

na == <<"n", "/", "a">>

\* checksumNA without the padding
checksumNAUnpadded == na

checksumNA == PadRight(na, crcChars)

\* What the file system gives for one path: stat, open and read tell whether
\* Stat, Open and the reads of io.Copy succeed, size is the size Stat
\* reports, sum32 the CRC-32 of the content.
Vanished == "vanished"
FileState(size, sum32, trouble) ==
    [stat |-> trouble \notin {"stat", Vanished},
     open |-> trouble \notin {"open", Vanished},
     read |-> trouble # "read",
     size |-> size,
     sum32 |-> sum32]

\* checksum whose deferred function recovers and leaves the result as it is
checksumNoSentinel(f) ==
    IF ~f.open \/ ~f.read THEN <<>> ELSE PadZero(f.sum32, crcChars)

\* checksum printing the sum without the zeros
checksumNoZeros(f) ==
    IF ~f.open \/ ~f.read THEN checksumNA ELSE FormatHex(f.sum32)

\* checksum(fsys, path): Open or io.Copy failing panics; the deferred function
\* recovers, and replaces a panic or an empty result by checksumNA.
checksum(f) ==
    LET panicked == ~f.open \/ ~f.read
        chksum == IF panicked THEN <<>> ELSE PadZero(f.sum32, crcChars)
    IN IF panicked \/ chksum = <<>> THEN checksumNA ELSE chksum

\* newEntry calling Stat whatever the PrintMode
newEntryStatAlways(mode, f, ft) ==
    IF ~f.stat
    THEN [ok |-> FALSE, stat |-> TRUE, open |-> FALSE,
          ent |-> [Type |-> ft, mode |-> mode, Size |-> 0, Checksum |-> <<>>]]
    ELSE [ok |-> TRUE,
          stat |-> TRUE,
          open |-> HasBit(mode, ModeCRC32) /\ ft = File,
          ent |-> [Type |-> ft,
                   mode |-> mode,
                   Size |-> IF HasBit(mode, ModeSize) THEN f.size ELSE 0,
                   Checksum |-> IF ~HasBit(mode, ModeCRC32) THEN <<>>
                                ELSE IF ft # File THEN na
                                ELSE checksum(f)]]

\* newEntry: ok is FALSE when the size is asked for and Stat fails; Stat is
\* called, and Size set, for every file type; Checksum is na for what is not
\* a regular file, and is left empty when the checksum is not asked for.
\* stat, open: whether Stat was called, and whether checksum was called and
\* so Open.
newEntry(mode, f, ft) ==
    IF HasBit(mode, ModeSize) /\ ~f.stat
    THEN [ok |-> FALSE, stat |-> TRUE, open |-> FALSE,
          ent |-> [Type |-> ft, mode |-> mode, Size |-> 0, Checksum |-> <<>>]]
    ELSE [ok |-> TRUE,
          stat |-> HasBit(mode, ModeSize),
          open |-> HasBit(mode, ModeCRC32) /\ ft = File,
          ent |-> [Type |-> ft,
                   mode |-> mode,
                   Size |-> IF HasBit(mode, ModeSize) THEN f.size ELSE 0,
                   Checksum |-> IF ~HasBit(mode, ModeCRC32) THEN <<>>
                                ELSE IF ft # File THEN na
                                ELSE checksum(f)]]

\* sep of Entry.Format: a space unless nothing was written yet
sep(sb) == IF Len(sb) # 0 THEN Append(sb, " ") ELSE sb

\* Format without the separator behind the last field
FormatNoTrail(e) ==
    LET s1 == IF HasBit(e.mode, ModeType) THEN Append(sep(<<>>), char(e.Type)) ELSE <<>>
        s2 == IF HasBit(e.mode, ModeSize)
              THEN sep(s1) \o formatSize(e.Type, e.Size) ELSE s1
    IN IF HasBit(e.mode, ModeCRC32)
       THEN sep(s2) \o <<"c", "r", "c", "=">>
                \o (IF e.Type # File THEN checksumNA ELSE e.Checksum)
       ELSE s2

\* e.Format()
Format(e) ==
    LET s1 == IF HasBit(e.mode, ModeType) THEN Append(sep(<<>>), char(e.Type)) ELSE <<>>
        s2 == IF HasBit(e.mode, ModeSize)
              THEN sep(s1) \o formatSize(e.Type, e.Size) ELSE s1
        s3 == IF HasBit(e.mode, ModeCRC32)
              THEN sep(s2) \o <<"c", "r", "c", "=">>
                       \o (IF e.Type # File THEN checksumNA ELSE e.Checksum)
              ELSE s2
    IN sep(s3)

\* ------------------------------------------------------------------------
\* Paths
\* ------------------------------------------------------------------------

\* file names, in ascending byte order
NameSeq == <<"a", "b">>
Names == {NameSeq[i] : i \in DOMAIN NameSeq}

PathSeparator == "/"

\* filepath.Rel(root, fullpath) for a node at the name sequence p under root
RECURSIVE JoinNames(_)
JoinNames(p) ==
    IF Len(p) = 1 THEN <<p[1]>>
    ELSE JoinNames(SubSeq(p, 1, Len(p) - 1)) \o <<PathSeparator, p[Len(p)]>>

Rel(p) == IF p = <<>> THEN <<".">> ELSE JoinNames(p)

\* NumSegments counting the separators and not the segments
NumSegmentsNoRoot(rel) == Cardinality({i \in DOMAIN rel : rel[i] = PathSeparator})

\* len(strings.Split(rel, string(os.PathSeparator)))
NumSegments(rel) == Cardinality({i \in DOMAIN rel : rel[i] = PathSeparator}) + 1

ToSlash(s) == [i \in DOMAIN s |-> IF s[i] = PathSeparator THEN "/" ELSE s[i]]

\* ------------------------------------------------------------------------
\* Patterns (options.go)
\* ------------------------------------------------------------------------

match == TRUE
ignore == FALSE

\* filepath.Match on a well-formed pattern: '*' any run of non-separator
\* characters, '?' one non-separator character, any other character itself.
RECURSIVE Match(_, _)
Match(pat, name) ==
    IF pat = <<>> THEN name = <<>>
    ELSE IF Head(pat) = "*"
        THEN Match(Tail(pat), name)
             \/ (name # <<>> /\ Head(name) # "/" /\ Match(pat, Tail(name)))
    ELSE IF Head(pat) = "?"
        THEN name # <<>> /\ Head(name) # "/" /\ Match(Tail(pat), Tail(name))
    ELSE name # <<>> /\ Head(name) = Head(pat) /\ Match(Tail(pat), Tail(name))

\* filepath.Match reports ErrBadPattern: a '[' that no ']' closes
BadPattern(pat) ==
    \E i \in DOMAIN pat : pat[i] = "[" /\ \A j \in (i + 1)..Len(pat) : pat[j] # "]"

\* keepLoop with the first matching pattern deciding, whatever its role
RECURSIVE keepLoopFirstWins(_, _, _, _)
keepLoopFirstWins(path, ps, keep, hasMatch) ==
    IF ps = <<>> THEN ~hasMatch \/ keep
    ELSE LET p == Head(ps)
             m == Match(p.pat, path)
         IN IF m /\ p.moi = ignore THEN FALSE
            ELSE IF m /\ p.moi = match THEN TRUE
            ELSE keepLoopFirstWins(path, Tail(ps), keep, hasMatch \/ p.moi = match)

\* keepLoop with keep = m in place of keep = keep || m
RECURSIVE keepLoopLastWins(_, _, _, _)
keepLoopLastWins(path, ps, keep, hasMatch) ==
    IF ps = <<>> THEN ~hasMatch \/ keep
    ELSE LET p == Head(ps)
             m == Match(p.pat, path)
         IN IF m /\ p.moi = ignore THEN FALSE
            ELSE IF p.moi = match
                THEN keepLoopLastWins(path, Tail(ps), m, TRUE)
                ELSE keepLoopLastWins(path, Tail(ps), keep, hasMatch)

RECURSIVE keepLoop(_, _, _, _)
keepLoop(path, ps, keep, hasMatch) ==
    IF ps = <<>> THEN ~hasMatch \/ keep
    ELSE LET p == Head(ps)
             m == Match(p.pat, path)
         IN IF m /\ p.moi = ignore THEN FALSE
            ELSE IF p.moi = match
                THEN keepLoop(path, Tail(ps), keep \/ m, TRUE)
                ELSE keepLoop(path, Tail(ps), keep, hasMatch)

shouldKeepPath(path, ps) ==
    IF ps = <<>> THEN TRUE ELSE keepLoop(path, ps, FALSE, FALSE)

\* ------------------------------------------------------------------------
\* Options (options.go, mode.go)
\* ------------------------------------------------------------------------

\* the baseline with every field printed
defaultCfgAll ==
    [mode |-> ModeAll, showRoot |-> TRUE, globs |-> <<>>, depth |-> 0,
     types |-> AllTypes]

defaultCfg ==
    [mode |-> ModeDefault, showRoot |-> TRUE, globs |-> <<>>, depth |-> 0,
     types |-> AllTypes]

NoOption == [kind |-> "none"]

TypeStrings == {<<>>, <<"f">>, <<"d">>, <<"f", "?">>, <<"f", "d", "?">>, <<"f", "x">>}

WalkPatterns == {<<"a">>, <<"*", "/", "a">>, <<"a", "/", "b", "[">>}

Options ==
    {[kind |-> "PrintMode", mode |-> m] : m \in {ModeType, ModeType + ModeCRC32, ModeAll}}
    \cup {[kind |-> "IncludeRoot", in |-> b] : b \in BOOLEAN}
    \cup {[kind |-> "Depth", d |-> d] : d \in (-1)..MaxDepth}
    \cup {[kind |-> "Type", t |-> t] : t \in TypeStrings}
    \cup {[kind |-> "Ignore", pat |-> p] : p \in WalkPatterns}
    \cup {[kind |-> "Match", pat |-> p] : p \in WalkPatterns}

\* typeLoop passing over a character that is none of 'f', 'd', '?'
RECURSIVE typeLoopSkip(_, _)
typeLoopSkip(t, types) ==
    IF t = <<>> THEN [ok |-> TRUE, types |-> types]
    ELSE IF Head(t) = "f" THEN typeLoopSkip(Tail(t), types \cup {File})
    ELSE IF Head(t) = "d" THEN typeLoopSkip(Tail(t), types \cup {Dir})
    ELSE IF Head(t) = "?" THEN typeLoopSkip(Tail(t), types \cup {Other})
    ELSE typeLoopSkip(Tail(t), types)

\* The loop of Type.apply over the characters of t: ok is FALSE at the first
\* character that is none of 'f', 'd', '?'.
RECURSIVE typeLoop(_, _)
typeLoop(t, types) ==
    IF t = <<>> THEN [ok |-> TRUE, types |-> types]
    ELSE IF Head(t) = "f" THEN typeLoop(Tail(t), types \cup {File})
    ELSE IF Head(t) = "d" THEN typeLoop(Tail(t), types \cup {Dir})
    ELSE IF Head(t) = "?" THEN typeLoop(Tail(t), types \cup {Other})
    ELSE [ok |-> FALSE, types |-> types]

Failed(c) == [ok |-> FALSE, cfg |-> c]
Applied(c) == [ok |-> TRUE, cfg |-> c]

\* the union of two PrintModes
BitOr(a, b) ==
    (IF HasBit(a, ModeType) \/ HasBit(b, ModeType) THEN ModeType ELSE 0)
    + (IF HasBit(a, ModeSize) \/ HasBit(b, ModeSize) THEN ModeSize ELSE 0)
    + (IF HasBit(a, ModeCRC32) \/ HasBit(b, ModeCRC32) THEN ModeCRC32 ELSE 0)

\* apply with a PrintMode option adding its fields to those already set
applyUnion(opt, c) ==
    CASE opt.kind = "PrintMode" -> Applied([c EXCEPT !.mode = BitOr(@, opt.mode)])
      [] opt.kind = "IncludeRoot" -> Applied([c EXCEPT !.showRoot = opt.in])
      [] opt.kind = "Depth" ->
            IF opt.d < 0 THEN Failed(c) ELSE Applied([c EXCEPT !.depth = opt.d])
      [] opt.kind = "Type" ->
            IF opt.t = <<>> THEN Failed(c)
            ELSE LET r == typeLoop(opt.t, {})
                 IN IF r.ok THEN Applied([c EXCEPT !.types = r.types]) ELSE Failed(c)
      [] opt.kind = "Ignore" ->
            IF BadPattern(opt.pat) THEN Failed(c)
            ELSE Applied([c EXCEPT !.globs = Append(@, [pat |-> opt.pat, moi |-> ignore])])
      [] opt.kind = "Match" ->
            IF BadPattern(opt.pat) THEN Failed(c)
            ELSE Applied([c EXCEPT !.globs = Append(@, [pat |-> opt.pat, moi |-> match])])

\* o.apply(&cfg): ok is FALSE when apply returns an error, and cfg is the
\* configuration the call leaves behind.
apply(opt, c) ==
    CASE opt.kind = "PrintMode" -> Applied([c EXCEPT !.mode = opt.mode])
      [] opt.kind = "IncludeRoot" -> Applied([c EXCEPT !.showRoot = opt.in])
      [] opt.kind = "Depth" ->
            IF opt.d < 0 THEN Failed(c) ELSE Applied([c EXCEPT !.depth = opt.d])
      [] opt.kind = "Type" ->
            IF opt.t = <<>> THEN Failed(c)
            ELSE LET r == typeLoop(opt.t, {})
                 IN IF r.ok THEN Applied([c EXCEPT !.types = r.types]) ELSE Failed(c)
      [] opt.kind = "Ignore" ->
            IF BadPattern(opt.pat) THEN Failed(c)
            ELSE Applied([c EXCEPT !.globs = Append(@, [pat |-> opt.pat, moi |-> ignore])])
      [] opt.kind = "Match" ->
            IF BadPattern(opt.pat) THEN Failed(c)
            ELSE Applied([c EXCEPT !.globs = Append(@, [pat |-> opt.pat, moi |-> match])])

\* ------------------------------------------------------------------------
\* The file system under the root
\* ------------------------------------------------------------------------

\* A tree is a set of <<path, mode>> pairs; a path is the sequence of names
\* from the root, <<>> for the root itself. Sub(p, k): the trees rooted at p of
\* at most k nodes; Kids(p, i, k): the forests below the directory p made of
\* the names NameSeq[i], NameSeq[i+1], ..., of at most k nodes.
RECURSIVE Sub(_, _), Kids(_, _, _)
Sub(p, k) ==
    IF k = 0 THEN {}
    ELSE {{<<p, m>>} : m \in {"f", "l"}}
         \cup {{<<p, "d">>} \cup ks :
                 ks \in (IF Len(p) < MaxLevels THEN Kids(p, 1, k - 1) ELSE {{}})}

Kids(p, i, k) ==
    IF i > Len(NameSeq) THEN {{}}
    ELSE Kids(p, i + 1, k)
         \cup UNION {{s \cup r : r \in Kids(p, i + 1, k - Cardinality(s))} :
                       s \in Sub(Append(p, NameSeq[i]), k)}

\* the empty tree: the root does not exist
Trees == {{}} \cup Sub(<<>>, MaxNodes)

VARIABLES
    fsys,       \* the tree under the root
    cfg,        \* Write: the configuration being resolved
    o,          \* Write: the option of the current turn of the option loop
    nopts,      \* Write: number of options applied
    pc,         \* Write: "config", "walk" or "done"
    err,        \* Write: the error returned: "nil", "config", "walk", "write"
    seenRoot,   \* Write: the flag of the walk callback
    todo,       \* WalkDir: the listed entries not yet walked, next first
    visited,    \* history: the calls of the walk callback, in order
    buf,        \* bufio.Writer: pieces written and not yet handed to the sink
    sink,       \* the pieces the sink has received
    werr,       \* bufio.Writer: a write to the sink has failed
    kpath,      \* shouldKeepPath alone: its path
    kps,        \* shouldKeepPath alone: its pattern list
    kres,       \* shouldKeepPath alone: whether it was called, and its result
    ret,        \* Sprint: whether it returned, its string and its error
    emode,      \* newEntry alone: the PrintMode of the entries
    made,       \* newEntry alone: the entries built, with what they were built from
    runs,       \* whole calls of Write and WriteFS on the tree, in order
    broken,     \* whole calls: the symlinks of the tree whose target is missing
    pkg,        \* the package-level variable defaultCfg, and the arrays behind slices
    local,      \* concurrent calls of Write: the cfg of each, and the options it applied
    pooled,     \* checksum: whether it copies through the package-level iobuf
    bufs,       \* checksum: the copy buffers, iobuf and those of single calls
    sums        \* concurrent calls of checksum: the file, the copy loop, the hash

vars == <<fsys, cfg, o, nopts, pc, err, seenRoot, todo, visited, buf, sink, werr,
          kpath, kps, kres, ret, emode, made, runs, broken,
          pkg, local, pooled, bufs, sums>>

walkVars == <<fsys, cfg, o, nopts, pc, err, seenRoot, todo, visited, buf, sink, werr>>
keepVars == <<kpath, kps, kres>>
entVars == <<emode, made>>
runVars == <<runs, broken>>
shareVars == <<pkg, local>>
sumVars == <<pooled, bufs, sums>>

\* the variables of whole calls before any call
NoRuns == runs = <<>> /\ broken = {}

\* callers of Write at the same time
MaxCallers == 2

\* the zero value of pattern
NoPattern == [pat |-> <<>>, moi |-> ignore]

\* globs of a baseline made with room for two patterns
globsWithRoom == [arr |-> 1, len |-> 0, cap |-> 2]

\* The globs field of defaultCfg as the slice it is: the array behind it (0:
\* none), its length and its capacity. It is nil.
nilGlobs == [arr |-> 0, len |-> 0, cap |-> 0]

\* the package when it is initialised: defaultCfg, and the arrays
\* allocated, the one behind defaultCfg.globs if it has one
pkgInit ==
    [defaultCfg |-> [defaultCfg EXCEPT !.globs = nilGlobs],
     arrays |-> IF nilGlobs.cap = 0 THEN <<>>
                ELSE <<[i \in 1..nilGlobs.cap |-> NoPattern]>>]

\* a caller that has not entered Write
idle == [pc |-> "idle", cfg |-> pkgInit.defaultCfg, opts |-> <<>>]

\* the variables of concurrent calls before any call
NoSharing == pkg = pkgInit /\ local = [i \in 1..MaxCallers |-> idle]

\* the variables of checksum before any call
NoSums == pooled = FALSE /\ bufs = <<>> /\ sums = <<>>

\* Sprint has not returned
NoReturn == [done |-> FALSE, text |-> <<>>, err |-> "nil"]

Nodes == {n[1] : n \in fsys}
ModeOf(p) == (CHOOSE n \in fsys : n[1] = p)[2]

\* The node a path leads to when the symlinks on it are followed. A symlink
\* of the trees points to the directory that holds it, one of its ancestors.
RECURSIVE Real(_)
Real(p) ==
    IF p = <<>> THEN <<>>
    ELSE LET q == Append(Real(SubSeq(p, 1, Len(p) - 1)), p[Len(p)])
         IN IF q \in Nodes /\ ModeOf(q) = "l" THEN SubSeq(q, 1, Len(q) - 1) ELSE q

\* readDirFrom giving the entries from the last name to the first
RECURSIVE readDirFromUnsorted(_, _)
readDirFromUnsorted(p, i) ==
    IF i > Len(NameSeq) THEN <<>>
    ELSE LET q == Append(Real(p), NameSeq[i])
         IN readDirFromUnsorted(p, i + 1)
            \o (IF q \in Nodes
                THEN <<[path |-> Append(p, NameSeq[i]), mode |-> ModeOf(q)]>>
                ELSE <<>>)

\* os.ReadDir(p): the entries of the directory p leads to, sorted by file
\* name; ReadDir follows symlinks, the entries it returns are not followed
RECURSIVE readDirFrom(_, _)
readDirFrom(p, i) ==
    IF i > Len(NameSeq) THEN <<>>
    ELSE LET q == Append(Real(p), NameSeq[i])
         IN (IF q \in Nodes
             THEN <<[path |-> Append(p, NameSeq[i]), mode |-> ModeOf(q)]>>
             ELSE <<>>)
            \o readDirFrom(p, i + 1)

ReadDir(p) == readDirFrom(p, 1)

\* ------------------------------------------------------------------------
\* The buffered writer (bufio.Writer in front of the sink)
\* ------------------------------------------------------------------------

\* What the environment does to one step of the walk: nothing, or the first
\* system call that fails in it. The step ends at its first failure, so one
\* fault a step covers every outcome. <<"sink", n>>: the sink accepts only n
\* of the pieces handed to it.
Faults ==
    {<<"none", 0>>, <<"stat", 0>>, <<"open", 0>>, <<Vanished, 0>>, <<"readdir", 0>>}
    \cup {<<"sink", n>> : n \in 0..(BufCap - 1)}

\* the number of pieces the sink accepts of the len it is handed
Accepted(fault, len) == IF fault[1] = "sink" THEN fault[2] ELSE len

\* bufWrite emptying a full buffer without handing it to the sink
bufWriteDrop(w, piece, fault) ==
    IF w.failed THEN w
    ELSE IF Len(w.buf) < BufCap THEN [w EXCEPT !.buf = Append(@, piece)]
    ELSE [buf |-> <<piece>>, sink |-> w.sink, failed |-> FALSE]

\* bufw.WriteString / bufw.WriteByte of one piece. w is the writer: its buffer,
\* what the sink has received, and whether it failed. A full buffer is handed
\* to the sink first; a sink that accepts fewer pieces than it is handed is a
\* failed write.
bufWrite(w, piece, fault) ==
    IF w.failed THEN w
    ELSE IF Len(w.buf) < BufCap THEN [w EXCEPT !.buf = Append(@, piece)]
    ELSE LET n == Accepted(fault, Len(w.buf)) IN
         IF n >= Len(w.buf)
        THEN [buf |-> <<piece>>, sink |-> w.sink \o w.buf, failed |-> FALSE]
        ELSE [buf |-> SubSeq(w.buf, n + 1, Len(w.buf)),
              sink |-> w.sink \o SubSeq(w.buf, 1, n), failed |-> TRUE]

\* ------------------------------------------------------------------------
\* The walk callback of Write
\* ------------------------------------------------------------------------

\* The type filter of the walker, its first check: the node's type is not
\* one of cfg.types.
typeExcluded(ft, c) == ft \notin c.types

\* rootHidden without the seenRoot flag
rootHiddenAlways(c, sr) == ~c.showRoot

\* "Exclude root": the first call that comes here finds seenRoot unset; it
\* returns when the root is not to be shown.
rootHidden(c, sr) == ~sr /\ ~c.showRoot

\* "Depth check"
tooDeep(c, rel) == c.depth # 0 /\ NumSegments(rel) > c.depth

\* retOf returning nil for a directory beyond the depth
retOfNoSkip(outcome, e) ==
    IF outcome = "format" THEN "err" ELSE "nil"

\* retOf returning fs.SkipDir for a directory the patterns exclude
retOfPatternPrunes(outcome, e) ==
    IF outcome \in {"depth", "pattern"} /\ IsDir(e.mode) THEN "SkipDir"
    ELSE IF outcome = "format" THEN "err"
    ELSE "nil"

\* retOf dropping the error of newEntry
retOfSwallow(outcome, e) ==
    IF outcome = "depth" /\ IsDir(e.mode) THEN "SkipDir" ELSE "nil"

\* What the callback returns where it leaves before writing: nil, but
\* fs.SkipDir for a directory beyond the depth, and the error of newEntry.
retOf(outcome, e) ==
    IF outcome = "depth" /\ IsDir(e.mode) THEN "SkipDir"
    ELSE IF outcome = "format" THEN "err"
    ELSE "nil"

\* what the file system gives for the entry e in a step with this fault:
\* Stat follows a symlink, and a symlink of the trees points to its parent
\* directory
StatSize(m) == IF m = "f" THEN 13 ELSE 4096
Sum32(m) == 72461406
FileAt(e, fault) == FileState(StatSize(e.mode), Sum32(e.mode), fault[1])

\* one piece written: which of the three writes of a line, for which node,
\* and the characters written
Piece(k, e, ft, text) == [kind |-> k, path |-> e.path, ft |-> ft, text |-> text]

\* the three writes of a kept node: the formatted entry, the slash-based
\* relative path, the newline; a failed one ends them
writeLine(w, e, ent, fault) ==
    LET w1 == bufWrite(w, Piece("fields", e, ent.Type, Format(ent)), fault)
        w2 == bufWrite(w1, Piece("rel", e, ent.Type, ToSlash(Rel(e.path))), fault)
    IN IF w1.failed THEN w1
       ELSE IF w2.failed THEN w2
       ELSE bufWrite(w2, Piece("nl", e, ent.Type, <<"\n">>), fault)

\* One call of the callback, without a walk error, for the entry e: where it
\* left ("type", "root", "depth", "pattern", "format", or "kept" after the
\* writes), what it returns ("nil", "SkipDir" or "err"), seenRoot and the
\* writer after it. newEntry is called by the calls that reach it, those
\* that leave at "format" or "kept": stat and open tell what it asked of the
\* file system.
walkFn(c, e, sr, w, fault) ==
    LET ft == filetypeFromDirEntry(e.mode)
        rel == Rel(e.path)
        built == newEntry(c.mode, FileAt(e, fault), ft)
        outcome ==
            IF typeExcluded(ft, c) THEN "type"
            ELSE IF rootHidden(c, sr) THEN "root"
            ELSE IF tooDeep(c, rel) THEN "depth"
            ELSE IF ~shouldKeepPath(ToSlash(rel), c.globs) THEN "pattern"
            ELSE IF ~built.ok THEN "format"
            ELSE "kept"
        w2 == IF outcome = "kept" THEN writeLine(w, e, built.ent, fault) ELSE w
    IN [outcome |-> outcome,
        ret |-> IF outcome = "kept" THEN (IF w2.failed THEN "err" ELSE "nil")
                ELSE retOf(outcome, e),
        seenRoot |-> IF outcome = "type" THEN sr ELSE TRUE,
        w |-> w2,
        gone |-> fault[1] = Vanished,
        line |-> IF outcome = "kept" THEN Format(built.ent) ELSE <<>>,
        stat |-> outcome \in {"format", "kept"} /\ built.stat,
        open |-> outcome \in {"format", "kept"} /\ built.open]

\* the record of one call: the node, where the call left and what it
\* returned, whether the node had vanished since it was listed, and the
\* formatted entry of a kept node
Call(e, r) ==
    [path |-> e.path, ft |-> filetypeFromDirEntry(e.mode), outcome |-> r.outcome,
     ret |-> r.ret, gone |-> r.gone, line |-> r.line, stat |-> r.stat,
     open |-> r.open]

\* the callback called with a walk error returns it at once
ErrCall(path, ft) ==
    [path |-> path, ft |-> ft, outcome |-> "walkerr", ret |-> "err", gone |-> FALSE,
     line |-> <<>>, stat |-> FALSE, open |-> FALSE]

\* ------------------------------------------------------------------------
\* Write
\* ------------------------------------------------------------------------

Init ==
    /\ fsys \in Trees
    /\ cfg = defaultCfg
    /\ o = NoOption
    /\ nopts = 0
    /\ pc = "config"
    /\ err = "nil"
    /\ seenRoot = FALSE
    /\ todo = <<>>
    /\ visited = <<>>
    /\ buf = <<>>
    /\ sink = <<>>
    /\ werr = FALSE
    /\ kpath = <<>>
    /\ kps = <<>>
    /\ kres = [done |-> FALSE, keep |-> FALSE]
    /\ ret = NoReturn
    /\ emode = ModeDefault
    /\ made = <<>>
    /\ NoRuns
    /\ NoSharing
    /\ NoSums

\* one turn of the option loop
ApplyOption(op) ==
    /\ pc = "config"
    /\ nopts < MaxOpts
    /\ o' = op
    /\ nopts' = nopts + 1
    /\ LET r == apply(op, cfg)
       IN /\ cfg' = r.cfg
          /\ IF r.ok THEN UNCHANGED <<pc, err>>
             ELSE pc' = "done" /\ err' = "config"
    /\ UNCHANGED <<fsys, seenRoot, todo, visited, buf, sink, werr>>
    /\ UNCHANGED <<keepVars, entVars, ret, runVars, shareVars, sumVars>>

\* the option loop is over: WalkDir looks the root up
StartWalk ==
    /\ pc = "config"
    /\ o' = NoOption
    /\ seenRoot' = FALSE
    /\ IF <<>> \in Nodes
       THEN /\ todo' = <<[path |-> <<>>, mode |-> ModeOf(<<>>)]>>
            /\ pc' = "walk"
            /\ UNCHANGED <<visited, err>>
       ELSE /\ visited' = Append(visited, ErrCall(<<>>, "none"))
            /\ pc' = "done"
            /\ err' = "walk"
            /\ UNCHANGED todo
    /\ UNCHANGED <<fsys, cfg, nopts, buf, sink, werr>>
    /\ UNCHANGED <<keepVars, entVars, ret, runVars, shareVars, sumVars>>

\* WalkDir walks the next listed entry: it calls the callback, and reads the
\* directory when the callback returns nil for one.
walkDir(fault) ==
    /\ pc = "walk"
    /\ todo # <<>>
    /\ LET e == Head(todo)
           r == walkFn(cfg, e, seenRoot, [buf |-> buf, sink |-> sink, failed |-> werr],
                       fault)
       IN /\ seenRoot' = r.seenRoot
          /\ buf' = r.w.buf
          /\ sink' = r.w.sink
          /\ werr' = r.w.failed
          /\ IF r.ret = "err"
             THEN /\ visited' = Append(visited, Call(e, r))
                  /\ todo' = <<>>
                  /\ pc' = "done"
                  /\ err' = "walk"
             ELSE IF r.ret = "nil" /\ IsDir(e.mode)
             THEN IF fault[1] \notin {"readdir", Vanished}
                  THEN /\ visited' = Append(visited, Call(e, r))
                       /\ todo' = ReadDir(e.path) \o Tail(todo)
                       /\ UNCHANGED <<pc, err>>
                  ELSE /\ visited' = visited \o <<Call(e, r), ErrCall(e.path, Dir)>>
                       /\ todo' = <<>>
                       /\ pc' = "done"
                       /\ err' = "walk"
             ELSE /\ visited' = Append(visited, Call(e, r))
                  /\ todo' = Tail(todo)
                  /\ UNCHANGED <<pc, err>>
    /\ UNCHANGED <<fsys, cfg, o, nopts>>
    /\ UNCHANGED <<keepVars, entVars, ret, runVars, shareVars, sumVars>>

\* the walk is over: bufw.Flush
Flush(fault) ==
    /\ pc = "walk"
    /\ todo = <<>>
    /\ pc' = "done"
    /\ LET n == Accepted(fault, Len(buf)) IN
       IF werr THEN err' = "write" /\ UNCHANGED <<buf, sink, werr>>
       ELSE IF n >= Len(buf)
       THEN sink' = sink \o buf /\ buf' = <<>> /\ err' = "nil" /\ werr' = FALSE
       ELSE /\ sink' = sink \o SubSeq(buf, 1, n)
            /\ buf' = SubSeq(buf, n + 1, Len(buf))
            /\ werr' = TRUE
            /\ err' = "write"
    /\ UNCHANGED <<fsys, cfg, o, nopts, seenRoot, todo, visited>>
    /\ UNCHANGED <<keepVars, entVars, ret, runVars, shareVars, sumVars>>

\* the characters of a sequence of pieces: sb.String()
RECURSIVE Text(_)
Text(ps) == IF ps = <<>> THEN <<>> ELSE Head(ps).text \o Text(Tail(ps))

\* Sprint returning what the builder holds beside the error
SprintPartial(sb, e) == [done |-> TRUE, text |-> Text(sb), err |-> e]

\* what Sprint returns after Write(&sb, ...) returned e
Sprint(sb, e) ==
    IF e # "nil" THEN [done |-> TRUE, text |-> <<>>, err |-> e]
    ELSE [done |-> TRUE, text |-> Text(sb), err |-> "nil"]

\* Sprint returns. Its sink is a strings.Builder, whose writes never fail:
\* the calls of Write by Sprint are those in which the sink refused nothing.
SprintReturn ==
    /\ pc = "done"
    /\ ~werr
    /\ ~ret.done
    /\ ret' = Sprint(sink, err)
    /\ UNCHANGED <<walkVars, keepVars, entVars, runVars, shareVars, sumVars>>

Next ==
    \/ \E op \in Options : ApplyOption(op)
    \/ StartWalk
    \/ \E fault \in Faults : walkDir(fault)
    \/ \E fault \in Faults : Flush(fault)
    \/ SprintReturn

Spec == Init /\ [][Next]_vars

\* Write and Sprint are sequential code: a step that can be taken is taken
FairSpec == Spec /\ WF_vars(Next)

\* ------------------------------------------------------------------------
\* shouldKeepPath alone
\* ------------------------------------------------------------------------

AllPaths == UNION {[1..n -> Names] : n \in 0..MaxLevels}

\* well-formed patterns, as validated options leave them in cfg.globs
Patterns == {<<"a">>, <<"*">>, <<"*", "/", "a">>, <<"?", "/", "b">>}

PatternLists ==
    UNION {[1..n -> [pat : Patterns, moi : {match, ignore}]] : n \in 0..MaxPats}

InitKeep ==
    /\ fsys = {}
    /\ cfg = defaultCfg
    /\ o = NoOption
    /\ nopts = 0
    /\ pc = "keep"
    /\ err = "nil"
    /\ seenRoot = FALSE
    /\ todo = <<>>
    /\ visited = <<>>
    /\ buf = <<>>
    /\ sink = <<>>
    /\ werr = FALSE
    /\ kpath \in {ToSlash(Rel(p)) : p \in AllPaths}
    /\ kps \in PatternLists
    /\ kres = [done |-> FALSE, keep |-> FALSE]
    /\ ret = NoReturn
    /\ emode = ModeDefault
    /\ made = <<>>
    /\ NoRuns
    /\ NoSharing
    /\ NoSums

Keep ==
    /\ pc = "keep"
    /\ ~kres.done
    /\ kres' = [done |-> TRUE, keep |-> shouldKeepPath(kpath, kps)]
    /\ UNCHANGED <<kpath, kps>>
    /\ UNCHANGED <<walkVars, entVars, ret, runVars, shareVars, sumVars>>

NextKeep == Keep

SpecKeep == InitKeep /\ [][NextKeep]_vars

\* ------------------------------------------------------------------------
\* newEntry, checksum and Entry.Format alone
\* ------------------------------------------------------------------------

\* number of entries built under one PrintMode
MaxEntries == 2

\* the PrintModes: every set of the three fields, and two with a bit that
\* names no field
PrintModes == (0..ModeAll) \cup {8, 8 + ModeType + ModeCRC32}

Sizes == {0, 13, 99999999, 999999999, 2147483647}
Sums == {0, 72461406, 2147483647}
Troubles == {"none", "stat", "open", "read", Vanished}

\* what an entry is built from: the kind of directory entry and what the
\* file system gives for its path
EntryInputs ==
    {[m |-> "f", f |-> FileState(sz, 72461406, t)] : sz \in Sizes, t \in Troubles}
    \cup {[m |-> "f", f |-> FileState(13, c, t)] : c \in Sums, t \in Troubles}
    \cup {[m |-> m, f |-> FileState(sz, 0, "none")] :
            m \in DirEntryModes \ {"f"}, sz \in {4096, 2147483647}}
    \cup {[m |-> m, f |-> FileState(4096, 0, "stat")] : m \in DirEntryModes \ {"f"}}

\* the walker's use of one entry: classify, build, format; and checksum and
\* formatSize called on the same path
Built(in, mode) ==
    LET ft == filetypeFromDirEntry(in.m)
        r == newEntry(mode, in.f, ft)
    IN [m |-> in.m, f |-> in.f, ft |-> ft, ok |-> r.ok, ent |-> r.ent,
        text |-> IF r.ok THEN Format(r.ent) ELSE <<>>,
        sum |-> checksum(in.f),
        sizeField |-> formatSize(ft, in.f.size)]

InitEntry ==
    /\ fsys = {}
    /\ cfg = defaultCfg
    /\ o = NoOption
    /\ nopts = 0
    /\ pc = "entry"
    /\ err = "nil"
    /\ seenRoot = FALSE
    /\ todo = <<>>
    /\ visited = <<>>
    /\ buf = <<>>
    /\ sink = <<>>
    /\ werr = FALSE
    /\ kpath = <<>>
    /\ kps = <<>>
    /\ kres = [done |-> FALSE, keep |-> FALSE]
    /\ ret = NoReturn
    /\ emode \in PrintModes
    /\ made = <<>>
    /\ NoRuns
    /\ NoSharing
    /\ NoSums

BuildEntry(in) ==
    /\ pc = "entry"
    /\ Len(made) < MaxEntries
    /\ made' = Append(made, Built(in, emode))
    /\ UNCHANGED <<walkVars, keepVars, ret, emode, runVars, shareVars, sumVars>>

NextEntry == \E in \in EntryInputs : BuildEntry(in)

SpecEntry == InitEntry /\ [][NextEntry]_vars

\* ------------------------------------------------------------------------
\* Whole calls: Write on the files of the operating system, WriteFS on an
\* fs.FS that holds the same tree
\* ------------------------------------------------------------------------

\* calls made on one tree
MaxRuns == 2

\* the fsys argument of newEntry and checksum: nil under Write
nil == "nil"
mapFS == "fsys"

\* the root argument of Write: the directory of the operating system that
\* holds the tree. Under WriteFS the root is "." and the tree is the fs.FS.
root == "testdata"

\* the path the walk gives the callback for the node p
fullpath(fs, p) == IF fs = nil THEN <<root>> \o p ELSE p

\* os.Stat, os.Open: the name is looked up in the operating system's files
osFinds(name) == name # <<>> /\ Head(name) = root /\ Tail(name) \in Nodes

\* fs.Stat(fsys, name), fsys.Open(name): the name is looked up in the fs.FS
fsFinds(name) == name \in Nodes

\* statOpen going to the operating system whatever fsys is
statOpenOsOnly(fs, name) == osFinds(name)

\* The two branches of newEntry and of checksum on fsys: whether Stat and
\* Open find the file.
statOpen(fs, name) == IF fs = nil THEN osFinds(name) ELSE fsFinds(name)

\* what a call on an unchanging tree meets at the node e: the file is there
\* when the lookup finds it
\* when the lookup finds it, and Stat, which follows symlinks, fails on a
\* symlink whose target is missing
found(fs, e) ==
    IF ~statOpen(fs, fullpath(fs, e.path)) THEN <<Vanished, 0>>
    ELSE IF e.path \in broken THEN <<"stat", 0>>
    ELSE <<"none", 0>>

\* The element of a set of one element. Below, r \in {e} gives the value of
\* e a name, as LET does, and has it computed once.
Only(S) == CHOOSE x \in S : TRUE

\* the option loop of Write: the first option that fails ends it
RECURSIVE optionLoop(_, _)
optionLoop(opts, c) ==
    IF opts = <<>> THEN Applied(c)
    ELSE Only({IF r.ok THEN optionLoop(Tail(opts), r.cfg) ELSE r :
               r \in {apply(Head(opts), c)}})

\* WalkDir from the listed entries td on: the callback on the first, its
\* directory read when the callback returns nil, until an error or the end
RECURSIVE walkFrom(_, _, _, _, _)
walkFrom(c, fs, td, sr, w) ==
    IF td = <<>> THEN [err |-> "nil", w |-> w]
    ELSE Only({IF r.ret = "err" THEN [err |-> "walk", w |-> r.w]
               ELSE Only({walkFrom(c, fs, t, r.seenRoot, r.w) :
                          t \in {IF r.ret = "nil" /\ IsDir(Head(td).mode)
                                 THEN ReadDir(Head(td).path) \o Tail(td)
                                 ELSE Tail(td)}}) :
               r \in {walkFn(c, Head(td), sr, w, found(fs, Head(td)))}})

\* A whole call into a sink that accepts everything: the configuration, the
\* error returned and the pieces the sink has received.
write(fs, opts) ==
    Only({IF ~r.ok THEN [cfg |-> r.cfg, err |-> "config", out |-> <<>>]
          ELSE IF <<>> \notin Nodes THEN [cfg |-> r.cfg, err |-> "walk", out |-> <<>>]
          ELSE Only({IF k.err # "nil"
                     THEN [cfg |-> r.cfg, err |-> k.err, out |-> k.w.sink]
                     ELSE [cfg |-> r.cfg, err |-> "nil", out |-> k.w.sink \o k.w.buf] :
                     k \in {walkFrom(r.cfg, fs, <<[path |-> <<>>, mode |-> ModeOf(<<>>)]>>,
                                     FALSE,
                                     [buf |-> <<>>, sink |-> <<>>, failed |-> FALSE])}}) :
          r \in {optionLoop(opts, defaultCfg)}})

Write(opts) == write(nil, opts)

WriteFS(opts) == write(mapFS, opts)

\* the record of one call: the function called, its options, and what
\* became of it
Run(fn, opts, how) ==
    Only({[fn |-> fn, opts |-> opts, how |-> how, cfg |-> r.cfg, err |-> r.err,
           out |-> r.out] :
          r \in {IF fn = "Write" THEN Write(opts) ELSE WriteFS(opts)}})

OptionLists == UNION {[1..n -> Options] : n \in 0..MaxOpts}

InitRuns ==
    /\ fsys \in Trees
    /\ cfg = defaultCfg
    /\ o = NoOption
    /\ nopts = 0
    /\ pc = "runs"
    /\ err = "nil"
    /\ seenRoot = FALSE
    /\ todo = <<>>
    /\ visited = <<>>
    /\ buf = <<>>
    /\ sink = <<>>
    /\ werr = FALSE
    /\ kpath = <<>>
    /\ kps = <<>>
    /\ kres = [done |-> FALSE, keep |-> FALSE]
    /\ ret = NoReturn
    /\ emode = ModeDefault
    /\ made = <<>>
    /\ runs = <<>>
    /\ broken \in SUBSET {p \in Nodes : ModeOf(p) = "l"}
    /\ NoSharing
    /\ NoSums

\* the first call on the tree: Write with any options
CallWrite(opts) ==
    /\ pc = "runs"
    /\ runs = <<>>
    /\ runs' = <<Run("Write", opts, "first")>>
    /\ UNCHANGED <<walkVars, keepVars, entVars, ret, broken, shareVars, sumVars>>

\* a later call: WriteFS with the options of the first call, on an fs.FS
\* that holds the tree
CallWriteFS ==
    /\ pc = "runs"
    /\ runs # <<>>
    /\ Len(runs) < MaxRuns
    /\ runs' = Append(runs, Run("WriteFS", runs[1].opts, "fs"))
    /\ UNCHANGED <<walkVars, keepVars, entVars, ret, broken, shareVars, sumVars>>

\* a later call: Write with the options of the first call and one more
\* Ignore option after them
CallWithIgnore(pat) ==
    /\ pc = "runs"
    /\ runs # <<>>
    /\ Len(runs) < MaxRuns
    /\ runs' = Append(runs, Run("Write",
                                Append(runs[1].opts, [kind |-> "Ignore", pat |-> pat]),
                                "ignore"))
    /\ UNCHANGED <<walkVars, keepVars, entVars, ret, broken, shareVars, sumVars>>

\* the options in the opposite order
Reversed(opts) == [i \in DOMAIN opts |-> opts[Len(opts) + 1 - i]]

\* the scalar options of the list are of different kinds
OneOfEachScalar(opts) ==
    \A i, j \in DOMAIN opts :
        (i # j /\ opts[i].kind = opts[j].kind) => opts[i].kind \in {"Ignore", "Match"}

\* a later call: Write with the options of the first call in the opposite
\* order
CallPermuted ==
    /\ pc = "runs"
    /\ runs # <<>>
    /\ Len(runs) < MaxRuns
    /\ Len(runs[1].opts) >= 2
    /\ OneOfEachScalar(runs[1].opts)
    /\ runs' = Append(runs, Run("Write", Reversed(runs[1].opts), "permuted"))
    /\ UNCHANGED <<walkVars, keepVars, entVars, ret, broken, shareVars, sumVars>>

NextRuns ==
    \/ \E opts \in OptionLists : CallWrite(opts)
    \/ CallWriteFS
    \/ \E pat \in WalkPatterns : CallWithIgnore(pat)
    \/ CallPermuted

SpecRuns == InitRuns /\ [][NextRuns]_vars

\* ------------------------------------------------------------------------
\* Concurrent calls of Write: the option loop of each, over its copy of the
\* package-level defaultCfg
\* ------------------------------------------------------------------------

\* the elements of a slice
View(arrays, sl) == IF sl.len = 0 THEN <<>> ELSE SubSeq(arrays[sl.arr], 1, sl.len)

\* append(sl, x): in place when the array has room, otherwise in a new array
\* of twice the capacity to which the elements are copied
goAppend(arrays, sl, x) ==
    IF sl.len < sl.cap
    THEN [arrays |-> [arrays EXCEPT ![sl.arr][sl.len + 1] = x],
          slice |-> [sl EXCEPT !.len = @ + 1]]
    ELSE LET newcap == IF sl.cap = 0 THEN 1 ELSE 2 * sl.cap
             a == [i \in 1..newcap |->
                      IF i <= sl.len THEN arrays[sl.arr][i]
                      ELSE IF i = sl.len + 1 THEN x
                      ELSE NoPattern]
         IN [arrays |-> Append(arrays, a),
             slice |-> [arr |-> Len(arrays) + 1, len |-> sl.len + 1, cap |-> newcap]]

\* the configuration c with its patterns as a sequence
Value(arrays, c) == [c EXCEPT !.globs = View(arrays, c.globs)]

\* o.apply(&cfg) on a configuration whose globs is a slice: Ignore.apply and
\* Match.apply append to it, the others assign their field
applyTo(arrays, opt, c) ==
    LET r == apply(opt, Value(arrays, c))
    IN IF ~r.ok THEN [ok |-> FALSE, cfg |-> c, arrays |-> arrays]
       ELSE IF opt.kind \in {"Ignore", "Match"}
       THEN LET a == goAppend(arrays, c.globs, r.cfg.globs[Len(r.cfg.globs)])
            IN [ok |-> TRUE, cfg |-> [c EXCEPT !.globs = a.slice], arrays |-> a.arrays]
       ELSE [ok |-> TRUE, cfg |-> [r.cfg EXCEPT !.globs = c.globs], arrays |-> arrays]

\* the options the concurrent callers pass
SharedOptions ==
    {[kind |-> "Ignore", pat |-> <<"a">>],
     [kind |-> "Ignore", pat |-> <<"*", "/", "a">>],
     [kind |-> "Match", pat |-> <<"a">>],
     [kind |-> "Ignore", pat |-> <<"a", "/", "b", "[">>],
     [kind |-> "PrintMode", mode |-> ModeAll],
     [kind |-> "IncludeRoot", in |-> FALSE]}

InitShare ==
    /\ fsys = {}
    /\ cfg = defaultCfg
    /\ o = NoOption
    /\ nopts = 0
    /\ pc = "share"
    /\ err = "nil"
    /\ seenRoot = FALSE
    /\ todo = <<>>
    /\ visited = <<>>
    /\ buf = <<>>
    /\ sink = <<>>
    /\ werr = FALSE
    /\ kpath = <<>>
    /\ kps = <<>>
    /\ kres = [done |-> FALSE, keep |-> FALSE]
    /\ ret = NoReturn
    /\ emode = ModeDefault
    /\ made = <<>>
    /\ NoRuns
    /\ pkg = pkgInit
    /\ local = [i \in 1..MaxCallers |-> idle]
    /\ NoSums

\* cfg := defaultCfg
Enter(i) ==
    /\ pc = "share"
    /\ local[i].pc = "idle"
    /\ local' = [local EXCEPT ![i] = [pc |-> "config", cfg |-> pkg.defaultCfg,
                                      opts |-> <<>>]]
    /\ UNCHANGED <<walkVars, keepVars, entVars, ret, runVars, pkg, sumVars>>

\* one turn of the option loop of the caller i
ApplyShared(i, op) ==
    /\ pc = "share"
    /\ local[i].pc = "config"
    /\ Len(local[i].opts) < MaxOpts
    /\ LET r == applyTo(pkg.arrays, op, local[i].cfg)
       IN /\ local' = [local EXCEPT ![i] = [pc |-> IF r.ok THEN "config" ELSE "failed",
                                            cfg |-> r.cfg,
                                            opts |-> Append(local[i].opts, op)]]
          /\ pkg' = [pkg EXCEPT !.arrays = r.arrays]
    /\ UNCHANGED <<walkVars, keepVars, entVars, ret, runVars, sumVars>>

\* the option loop of the caller i is over: the walk goes by its cfg
StartShared(i) ==
    /\ pc = "share"
    /\ local[i].pc = "config"
    /\ local' = [local EXCEPT ![i].pc = "walk"]
    /\ UNCHANGED <<walkVars, keepVars, entVars, ret, runVars, pkg, sumVars>>

NextShare ==
    \/ \E i \in 1..MaxCallers : Enter(i)
    \/ \E i \in 1..MaxCallers : \E op \in SharedOptions : ApplyShared(i, op)
    \/ \E i \in 1..MaxCallers : StartShared(i)

SpecShare == InitShare /\ [][NextShare]_vars

\* ------------------------------------------------------------------------
\* Concurrent calls of checksum: the copy loop of each, through the
\* package-level iobuf or through a buffer of its own
\* ------------------------------------------------------------------------

\* concurrent calls of checksum
MaxSummers == 2

\* bytes of a file
MaxFileLen == 3

\* the length of iobuf, in bytes
iobufLen == 2

Bytes == {0, 1}

Files == UNION {[1..n -> Bytes] : n \in 1..MaxFileLen}

\* The hash after one more byte. The sums of two different contents of this
\* length are different, as those of crc32 are: the sum is the content read
\* as a number.
crcUpdate(h, b) == h * 3 + b + 1

\* h.Sum32() after the whole content was written to the hash
RECURSIVE Sum32Of(_, _)
Sum32Of(h, content) ==
    IF content = <<>> THEN h ELSE Sum32Of(crcUpdate(h, Head(content)), Tail(content))

\* the buffer of a call being iobuf whatever the version
bufOfPooled(g) == 0

\* The buffer the copy loop of the call g goes through: the package-level
\* iobuf (0) when checksum calls io.CopyBuffer with it, a buffer of the call
\* when it calls io.Copy.
bufOf(g) == IF pooled THEN 0 ELSE g

\* a call of checksum not yet made, for the file f
notCalled(f) == [pc |-> "idle", file |-> f, off |-> 0, nr |-> 0, k |-> 0, h |-> 0,
                 sum |-> <<>>]

InitSum ==
    /\ fsys = {}
    /\ cfg = defaultCfg
    /\ o = NoOption
    /\ nopts = 0
    /\ pc = "sum"
    /\ err = "nil"
    /\ seenRoot = FALSE
    /\ todo = <<>>
    /\ visited = <<>>
    /\ buf = <<>>
    /\ sink = <<>>
    /\ werr = FALSE
    /\ kpath = <<>>
    /\ kps = <<>>
    /\ kres = [done |-> FALSE, keep |-> FALSE]
    /\ ret = NoReturn
    /\ emode = ModeDefault
    /\ made = <<>>
    /\ NoRuns
    /\ NoSharing
    /\ pooled \in BOOLEAN
    /\ bufs = [b \in 0..MaxSummers |-> [i \in 1..iobufLen |-> 0]]
    /\ sums \in [1..MaxSummers -> {notCalled(f) : f \in Files}]

\* checksum is called: the file is opened and the hash made
StartSum(g) ==
    /\ pc = "sum"
    /\ sums[g].pc = "idle"
    /\ sums' = [sums EXCEPT ![g].pc = "read"]
    /\ UNCHANGED <<walkVars, keepVars, entVars, ret, runVars, shareVars, pooled, bufs>>

\* the bytes src.Read is about to give: what is left of the file, the
\* length of the buffer at most
chunk(s) == IF Len(s.file) - s.off < iobufLen THEN Len(s.file) - s.off ELSE iobufLen

\* src.Read(buf) of the copy loop, one byte of it: the next byte of the file
\* goes to the buffer; after the last one of the chunk the loop goes on to
\* dst.Write. At the end of the file the loop ends and checksum formats the
\* sum.
ReadByte(g) ==
    /\ pc = "sum"
    /\ sums[g].pc = "read"
    /\ LET s == sums[g]
           n == chunk(s)
       IN IF n = 0
          THEN /\ sums' = [sums EXCEPT ![g].pc = "done",
                                       ![g].sum = PadZero(s.h, crcChars)]
               /\ UNCHANGED bufs
          ELSE /\ bufs' = [bufs EXCEPT ![bufOf(g)][s.k + 1] = s.file[s.off + s.k + 1]]
               /\ sums' = IF s.k + 1 < n
                          THEN [sums EXCEPT ![g].k = s.k + 1]
                          ELSE [sums EXCEPT ![g].pc = "write", ![g].nr = n,
                                            ![g].off = s.off + n, ![g].k = 0]
    /\ UNCHANGED <<walkVars, keepVars, entVars, ret, runVars, shareVars, pooled>>

\* dst.Write(buf[0:nr]) of the copy loop, one byte of it: the hash takes the
\* next byte of the buffer; after the last one the loop goes back to
\* src.Read
WriteByte(g) ==
    /\ pc = "sum"
    /\ sums[g].pc = "write"
    /\ LET s == sums[g]
           h2 == crcUpdate(s.h, bufs[bufOf(g)][s.k + 1])
       IN sums' = IF s.k + 1 < s.nr
                  THEN [sums EXCEPT ![g].h = h2, ![g].k = s.k + 1]
                  ELSE [sums EXCEPT ![g].h = h2, ![g].k = 0, ![g].pc = "read"]
    /\ UNCHANGED <<walkVars, keepVars, entVars, ret, runVars, shareVars, pooled, bufs>>

NextSum ==
    \/ \E g \in 1..MaxSummers : StartSum(g)
    \/ \E g \in 1..MaxSummers : ReadByte(g)
    \/ \E g \in 1..MaxSummers : WriteByte(g)

SpecSum == InitSum /\ [][NextSum]_vars

\* ------------------------------------------------------------------------
\* Properties of shouldKeepPath
\* ------------------------------------------------------------------------

IgnoreMatches(path, ps) ==
    \E i \in DOMAIN ps : ps[i].moi = ignore /\ Match(ps[i].pat, path)

HasMatchRole(ps) == \E i \in DOMAIN ps : ps[i].moi = match

MatchMatches(path, ps) ==
    \E i \in DOMAIN ps : ps[i].moi = match /\ Match(ps[i].pat, path)

\* C1. Ignore precedence: when at least one ignore pattern of the list
\* matches the path, shouldKeepPath returns false, whatever match patterns
\* match it too and wherever the ignore pattern stands in the list.
IgnorePrecedence ==
    (kres.done /\ IgnoreMatches(kpath, kps)) => ~kres.keep

\* An ignore pattern that matches stands last, behind a match pattern that
\* matches too, and the path is dropped.
IgnorePrecedenceWitness ==
    /\ kres.done
    /\ Len(kps) >= 2
    /\ kps[1].moi = match /\ Match(kps[1].pat, kpath)
    /\ kps[Len(kps)].moi = ignore /\ Match(kps[Len(kps)].pat, kpath)
    /\ \A i \in 1..(Len(kps) - 1) : kps[i].moi = match
    /\ ~kres.keep

\* C2. Match semantics: a path that no ignore pattern matches is kept exactly
\* when the list holds no match pattern at all (the empty list included) or
\* at least one match pattern matches the path.
MatchSemantics ==
    (kres.done /\ ~IgnoreMatches(kpath, kps))
        => (kres.keep <=> (~HasMatchRole(kps) \/ MatchMatches(kpath, kps)))

\* The first of two match patterns matches and the second does not, beside an
\* ignore pattern that does not match: the path is kept.
MatchSemanticsWitness ==
    /\ kres.done
    /\ Len(kps) = 3
    /\ kps[1].moi = match /\ Match(kps[1].pat, kpath)
    /\ kps[2].moi = match /\ ~Match(kps[2].pat, kpath)
    /\ kps[3].moi = ignore /\ ~Match(kps[3].pat, kpath)
    /\ kres.keep

\* ------------------------------------------------------------------------
\* Properties of the walk
\* ------------------------------------------------------------------------

\* the number of slash-separated segments of the relative path of p
Segs(p) == IF p = <<>> THEN 1 ELSE Len(p)

\* q lies strictly below p
IsUnder(q, p) == Len(q) > Len(p) /\ SubSeq(q, 1, Len(p)) = p

\* every piece written, delivered or still buffered
Out == sink \o buf

\* the paths of the lines of a sequence of pieces, in order
LinesOf(s) ==
    LET rels == SelectSeq(s, LAMBDA x : x.kind = "rel")
    IN [i \in DOMAIN rels |-> rels[i].path]

\* the sink holds exactly one whole line for the node x
RenderedOnce(x) ==
    /\ Cardinality({i \in DOMAIN sink : sink[i].path = x}) = 3
    /\ \E i \in DOMAIN sink :
          /\ i + 2 <= Len(sink)
          /\ sink[i].path = x /\ sink[i].kind = "fields"
          /\ sink[i + 1].path = x /\ sink[i + 1].kind = "rel"
          /\ sink[i + 2].path = x /\ sink[i + 2].kind = "nl"

\* the filters, each taken alone, on the node x of the tree
PassType(x) == filetypeFromDirEntry(ModeOf(x)) \in cfg.types
PassDepth(x) == cfg.depth = 0 \/ Segs(x) <= cfg.depth
PassPattern(x) ==
    /\ ~IgnoreMatches(Rel(x), cfg.globs)
    /\ (~HasMatchRole(cfg.globs) \/ MatchMatches(Rel(x), cfg.globs))
PassRoot(x) == x # <<>> \/ cfg.showRoot

Finished == pc = "done" /\ err = "nil"

\* C3. Depth limit on output: with Depth(n), n > 0, nothing is written for a
\* node of more than n segments (the root counts one); and a call leaves at
\* the depth check only under a depth n > 0 and for a node of more than n
\* segments, so Depth(0) excludes no node and Depth(n) none within n.
DepthLimit ==
    /\ cfg.depth > 0 => \A i \in DOMAIN Out : Segs(Out[i].path) <= cfg.depth
    /\ \A i \in DOMAIN visited :
          visited[i].outcome = "depth"
              => (cfg.depth > 0 /\ Segs(visited[i].path) > cfg.depth)

\* Under Depth(1) the root and a child are rendered and a node of two
\* segments left at the depth check.
DepthLimitWitness ==
    /\ Finished
    /\ cfg.depth = 1
    /\ RenderedOnce(<<>>)
    /\ \E x \in Nodes : Len(x) = 1 /\ RenderedOnce(x)
    /\ \E i \in DOMAIN visited :
          visited[i].outcome = "depth" /\ Len(visited[i].path) = 2

\* C4 as claimed. With Depth(n), n > 0, the callback is never called for a
\* node of more than n segments, and no directory of more than n segments is
\* descended into.
DepthNeverVisited ==
    cfg.depth > 0 =>
        \A i \in DOMAIN visited :
            /\ Segs(visited[i].path) <= cfg.depth
            /\ \A j \in DOMAIN visited :
                  (j > i /\ IsUnder(visited[j].path, visited[i].path))
                      => Segs(visited[i].path) <= cfg.depth

\* C4 as amended. With Depth(n), n > 0, a call for a node of more than n
\* segments returns before the pattern check and before an entry is built;
\* when the node is a directory and the call reaches the depth check it
\* returns fs.SkipDir and no node below that directory is visited.
DepthPrunes ==
    cfg.depth > 0 =>
        \A i \in DOMAIN visited :
            Segs(visited[i].path) > cfg.depth =>
                /\ visited[i].outcome \notin {"pattern", "format", "kept"}
                /\ (visited[i].outcome = "depth" /\ visited[i].ft = Dir) =>
                      /\ visited[i].ret = "SkipDir"
                      /\ \A j \in DOMAIN visited :
                            ~IsUnder(visited[j].path, visited[i].path)

\* A directory of two segments that holds a node is skipped under Depth(1),
\* and the walk ends without an error.
DepthPrunesWitness ==
    /\ Finished
    /\ cfg.depth = 1
    /\ \E i \in DOMAIN visited :
          /\ visited[i].outcome = "depth"
          /\ visited[i].ft = Dir
          /\ visited[i].ret = "SkipDir"
          /\ \E x \in Nodes : IsUnder(x, visited[i].path)

\* C5. Pattern exclusion never prunes: when a walk ends without an error,
\* below a directory that the patterns excluded every node that passes the
\* type, depth and pattern filters has its line in the sink.
PatternNeverPrunes ==
    Finished =>
        \A i \in DOMAIN visited :
            (visited[i].outcome = "pattern" /\ visited[i].ft = Dir) =>
                \A x \in Nodes :
                    (IsUnder(x, visited[i].path) /\ PassType(x) /\ PassDepth(x)
                        /\ PassPattern(x)) => RenderedOnce(x)

\* A directory is excluded by an Ignore pattern and a node below it is
\* rendered.
PatternNeverPrunesWitness ==
    /\ Finished
    /\ \E i \in DOMAIN visited :
          /\ visited[i].outcome = "pattern"
          /\ visited[i].ft = Dir
          /\ IgnoreMatches(Rel(visited[i].path), cfg.globs)
          /\ \E x \in Nodes : IsUnder(x, visited[i].path) /\ RenderedOnce(x)

\* the depth-first pre-order listing of the tree below and with p
RECURSIVE PreOrder(_), PreOrderAll(_)
PreOrder(p) ==
    <<p>> \o (IF IsDir(ModeOf(p)) THEN PreOrderAll(ReadDir(p)) ELSE <<>>)

PreOrderAll(es) ==
    IF es = <<>> THEN <<>> ELSE PreOrder(Head(es).path) \o PreOrderAll(Tail(es))

\* the nodes that pass the type, depth and pattern filters, in walk order
Expected ==
    IF <<>> \notin Nodes THEN <<>>
    ELSE SelectSeq(PreOrder(<<>>),
                   LAMBDA x : PassType(x) /\ PassDepth(x) /\ PassPattern(x))

\* With the root shown, a walk that ends without an error has rendered the
\* nodes that pass the filters, each once and in walk order.
IncludeRootReference ==
    (Finished /\ cfg.showRoot) =>
        /\ LinesOf(sink) = Expected
        /\ Len(sink) = 3 * Len(Expected)

TypeNeverPrunesRootShown ==
    (Finished /\ Dir \notin cfg.types /\ cfg.showRoot) =>
        /\ \A i \in DOMAIN sink : sink[i].ft # Dir /\ sink[i].ft \in cfg.types
        /\ \A x \in Nodes :
              (PassType(x) /\ PassDepth(x) /\ PassPattern(x)) => RenderedOnce(x)

ExcludeRootRootKindAllowed ==
    (Finished /\ ~cfg.showRoot /\ PassType(<<>>)) =>
        LinesOf(sink) = SelectSeq(Expected, LAMBDA x : x # <<>>)

\* C8. Completeness without filters: with unlimited depth, all kinds allowed
\* and no pattern, a walk that ends without an error has rendered one line
\* for each node below the root, and one for the root when it is shown:
\* as many lines as nodes, each node exactly once.
Completeness ==
    (Finished /\ cfg.depth = 0 /\ cfg.types = AllTypes /\ cfg.globs = <<>>) =>
        /\ Len(LinesOf(sink)) =
              Cardinality(Nodes \ {<<>>}) + (IF cfg.showRoot THEN 1 ELSE 0)
        /\ Len(sink) = 3 * Len(LinesOf(sink))
        /\ \A x \in Nodes : PassRoot(x) => RenderedOnce(x)
        /\ buf = <<>>

\* A tree of MaxNodes nodes with a nested directory and a symlink is listed
\* whole, the root hidden.
CompletenessWitness ==
    /\ Finished
    /\ cfg.depth = 0 /\ cfg.types = AllTypes /\ cfg.globs = <<>>
    /\ ~cfg.showRoot
    /\ Cardinality(Nodes) = MaxNodes
    /\ \E x \in Nodes : Len(x) = 2
    /\ \E x \in Nodes : ModeOf(x) = "l"
    /\ Len(LinesOf(sink)) = MaxNodes - 1

\* an option that Write rejects
InvalidOption(op) ==
    \/ op.kind = "Type" /\ (op.t = <<>> \/ \E i \in DOMAIN op.t : op.t[i] \notin {"f", "d", "?"})
    \/ op.kind \in {"Ignore", "Match"} /\ BadPattern(op.pat)
    \/ op.kind = "Depth" /\ op.d < 0

\* C9. Configuration errors are eager: once an invalid option has been
\* applied the call is over with a configuration error, no node visited and
\* nothing written; and a call that returns a configuration error has
\* visited no node and written nothing.
ConfigErrorsEager ==
    /\ (o # NoOption /\ InvalidOption(o)) =>
          /\ pc = "done" /\ err = "config"
          /\ visited = <<>> /\ todo = <<>> /\ sink = <<>> /\ buf = <<>>
    /\ err = "config" =>
          /\ o # NoOption /\ InvalidOption(o)
          /\ visited = <<>> /\ sink = <<>> /\ buf = <<>>

\* An invalid option follows a valid one that changed the configuration, on
\* a tree that has nodes to visit.
ConfigErrorsEagerWitness ==
    /\ pc = "done" /\ err = "config"
    /\ nopts = 2
    /\ cfg # defaultCfg
    /\ InvalidOption(o)
    /\ Cardinality(Nodes) > 1
    /\ visited = <<>> /\ sink = <<>>

\* C10. Fatal errors abort the walk: a call of the callback that carries a
\* walk error, or that returns an error (size not obtained, write failed),
\* is the last call and the walk is over with an error; a failed write ends
\* in an error; a missing root ends in an error; after an error nothing is
\* left to visit; a line is written only for a node the callback kept, and
\* no node is given to the callback twice, the report of a directory that
\* could not be read apart.
FatalErrorsAbort ==
    /\ \A i \in DOMAIN visited :
          (visited[i].outcome \in {"walkerr", "format"} \/ visited[i].ret = "err")
              => (i = Len(visited) /\ pc = "done" /\ err = "walk")
    /\ werr => (pc = "done" /\ err \in {"walk", "write"})
    /\ (pc = "done" /\ <<>> \notin Nodes) => err \in {"config", "walk"}
    /\ err # "nil" => (pc = "done" /\ todo = <<>>)
    /\ \A i \in DOMAIN Out :
          \E j \in DOMAIN visited :
              visited[j].path = Out[i].path /\ visited[j].outcome = "kept"
    /\ \A i, j \in DOMAIN visited :
          (i < j /\ visited[i].path = visited[j].path)
              => (j = i + 1 /\ visited[j].outcome = "walkerr")

\* The size of a node cannot be obtained after lines have been written and
\* before the last node: the walk ends there with an error.
FatalErrorsAbortWitness ==
    /\ pc = "done" /\ err = "walk"
    /\ visited # <<>>
    /\ visited[Len(visited)].outcome = "format"
    /\ Out # <<>>
    /\ \E x \in Nodes : \A i \in DOMAIN visited : visited[i].path # x

\* the checksum a formatted entry ends with: the 8 characters behind "crc="
CrcOf(line) ==
    IF Len(line) >= 13 /\ SubSeq(line, Len(line) - 12, Len(line) - 9) = <<"c", "r", "c", "=">>
    THEN SubSeq(line, Len(line) - 8, Len(line) - 1)
    ELSE <<>>

NotApplicable == <<"n", "/", "a", " ", " ", " ", " ", " ">>

\* a call that built, or tried to build, the entry of a regular file that
\* had vanished since it was listed, under a PrintMode with the checksum
VanishedFileCall(v) ==
    /\ v.gone
    /\ v.ft = File
    /\ v.outcome \in {"format", "kept"}
    /\ HasBit(cfg.mode, ModeCRC32)

\* C12 as claimed. A regular file that vanished after it was listed is
\* rendered with the 'n/a' checksum and the call returns no error, under any
\* PrintMode that asks for the checksum, ModeAll included.
VanishingFile ==
    \A i \in DOMAIN visited :
        VanishedFileCall(visited[i]) =>
            /\ visited[i].outcome = "kept"
            /\ visited[i].ret = "nil"
            /\ CrcOf(visited[i].line) = NotApplicable

\* C12 as amended. A regular file that vanished after it was listed is
\* rendered with the 'n/a' checksum, and the call returns no error, under a
\* PrintMode that asks for the checksum and not for the size; under one that
\* asks for the size too (ModeAll) the call returns an error and is the last
\* of the walk, which ends with that error.
VanishingFileNoSize ==
    \A i \in DOMAIN visited :
        VanishedFileCall(visited[i]) =>
            IF HasBit(cfg.mode, ModeSize)
            THEN /\ visited[i].outcome = "format"
                 /\ visited[i].ret = "err"
                 /\ i = Len(visited)
                 /\ pc = "done" /\ err = "walk"
            ELSE /\ visited[i].outcome = "kept"
                 /\ visited[i].ret = "nil"
                 /\ CrcOf(visited[i].line) = NotApplicable

\* Under kind and checksum a vanished file is written "f crc=n/a      ", a
\* node is visited after it and the walk ends without an error.
VanishingFileNoSizeWitness ==
    /\ Finished
    /\ cfg.mode = ModeType + ModeCRC32
    /\ \E i \in DOMAIN visited :
          /\ VanishedFileCall(visited[i])
          /\ i < Len(visited)
          /\ \E k \in DOMAIN sink :
                /\ sink[k].path = visited[i].path
                /\ sink[k].text = <<"f", " ", "c", "r", "c", "=">> \o NotApplicable \o <<" ">>

\* C13. The walk is bounded by the tree, symlinks to an ancestor included:
\* every call is for a node of the tree, a symlink is classified Other and
\* the call that follows it is not for a node below it, no node is given to
\* the callback twice (the report of an unreadable directory apart), what is
\* left to walk are nodes not yet visited, and there are never more calls
\* than nodes plus that one report.
WalkBounded ==
    /\ \A i \in DOMAIN visited : visited[i].path \in Nodes \cup {<<>>}
    /\ \A i \in DOMAIN todo : todo[i].path \in Nodes
    /\ \A i \in DOMAIN visited :
          (visited[i].path \in Nodes /\ ModeOf(visited[i].path) = "l") =>
              /\ visited[i].ft = Other
              /\ \A j \in DOMAIN visited : ~IsUnder(visited[j].path, visited[i].path)
    /\ \A i, j \in DOMAIN visited :
          (i < j /\ visited[i].path = visited[j].path)
              => (j = i + 1 /\ visited[j].outcome = "walkerr")
    /\ \A i \in DOMAIN todo, j \in DOMAIN visited : todo[i].path # visited[j].path
    /\ \A i, j \in DOMAIN todo : todo[i].path = todo[j].path => i = j
    /\ Len(visited) <= Cardinality(Nodes) + 1

\* A symlink two levels down, pointing to the directory that holds it, is
\* visited once with every other node and the walk ends.
WalkBoundedWitness ==
    /\ Finished
    /\ \E x \in Nodes : Len(x) = 2 /\ ModeOf(x) = "l"
    /\ \A x \in Nodes : \E i \in DOMAIN visited : visited[i].path = x
    /\ Len(visited) = Cardinality(Nodes)

\* the call of Write, and of Sprint, ends
Terminates == <>(pc = "done")

\* claim-side: the slash-based relative path of the node p
RECURSIVE SlashPath(_)
SlashPath(p) ==
    IF p = <<>> THEN <<".">>
    ELSE IF Len(p) = 1 THEN <<p[1]>>
    ELSE SlashPath(SubSeq(p, 1, Len(p) - 1)) \o <<"/", p[Len(p)]>>

\* what Write is to emit for the nodes kept so far, in the order of the
\* calls: the formatted fields, the path, a newline
RECURSIVE LinesOfCalls(_)
LinesOfCalls(calls) ==
    IF calls = <<>> THEN <<>>
    ELSE (IF Head(calls).outcome = "kept"
          THEN <<Head(calls).line, SlashPath(Head(calls).path), <<"\n">>>>
          ELSE <<>>)
         \o LinesOfCalls(Tail(calls))

PieceTexts(ps) == [i \in DOMAIN ps |-> ps[i].text]

IsPrefix(a, b) == Len(a) <= Len(b) /\ SubSeq(b, 1, Len(a)) = a

\* C19. At every moment what the sink has received is a prefix of the
\* sequence made, for each kept node in the order of the walk, of the
\* formatted fields, the slash-based relative path and a newline; so is
\* what was written, buffer included; and when Write returns nil the sink
\* has received the whole sequence.
SinkPrefix ==
    /\ IsPrefix(PieceTexts(sink), LinesOfCalls(visited))
    /\ IsPrefix(PieceTexts(sink \o buf), LinesOfCalls(visited))
    /\ Finished => (PieceTexts(sink) = LinesOfCalls(visited) /\ buf = <<>>)

\* A walk that ends without an error, part of whose lines reached the sink
\* when the buffer filled up and the rest at the final flush.
SinkPrefixWitness ==
    /\ Finished
    /\ Len(sink) > BufCap
    /\ Len(sink) % BufCap # 0
    /\ PieceTexts(sink) = LinesOfCalls(visited)

\* C20. Sprint agrees with Write: it returns the error of Write; when that
\* is nil it returns the text the sink of Write received, all of it; when it
\* is not it returns the empty string, never part of a listing.
SprintAgrees ==
    ret.done =>
        /\ ret.err = err
        /\ err = "nil" => (ret.text = Text(sink) /\ buf = <<>>
                           /\ PieceTexts(sink) = LinesOfCalls(visited))
        /\ err # "nil" => ret.text = <<>>

\* Sprint returns two lines or more and no error.
SprintAgreesWitness ==
    /\ ret.done
    /\ ret.err = "nil"
    /\ Len(sink) >= 6
    /\ ret.text = Text(sink)
    /\ ret.text # <<>>

\* ------------------------------------------------------------------------
\* Properties of checksum, the classifier, newEntry and Entry.Format
\* ------------------------------------------------------------------------

LowerHex == {HexDigits[i] : i \in DOMAIN HexDigits}

\* the number written by a string of hexadecimal digits
RECURSIVE HexValue(_)
HexValue(str) ==
    IF str = <<>> THEN 0
    ELSE 16 * HexValue(SubSeq(str, 1, Len(str) - 1))
         + (CHOOSE d \in 0..15 : HexDigits[d + 1] = str[Len(str)])

\* the number written by a string of decimal digits
RECURSIVE DecValue(_)
DecValue(str) ==
    IF str = <<>> THEN 0
    ELSE 10 * DecValue(SubSeq(str, 1, Len(str) - 1))
         + (CHOOSE d \in 0..9 : DecDigits[d + 1] = str[Len(str)])

\* the number of decimal digits of n >= 0
RECURSIVE NumDigits(_)
NumDigits(n) == IF n < 10 THEN 1 ELSE 1 + NumDigits(n \div 10)

AllSpaces(str) == \A i \in DOMAIN str : str[i] = " "

\* the 'not applicable' sentinel, 8 characters wide
Sentinel == <<"n", "/", "a", " ", " ", " ", " ", " ">>

\* C11. checksum is total: for every path it returns 8 characters; they are
\* lowercase hexadecimal digits that write the CRC-32 of the content, zeros
\* in front, when the file was opened and read to its end, and the
\* 'n/a' sentinel padded to 8 when Open or a read failed.
ChecksumTotal ==
    \A i \in DOMAIN made :
        LET r == made[i] IN
        /\ Len(r.sum) = 8
        /\ IF r.f.open /\ r.f.read
           THEN /\ \A k \in DOMAIN r.sum : r.sum[k] \in LowerHex
                /\ HexValue(r.sum) = r.f.sum32
           ELSE r.sum = Sentinel

\* A file that cannot be opened gives the sentinel, and a content whose
\* CRC-32 is 0 gives eight zeros.
ChecksumTotalWitness ==
    /\ Len(made) = 2
    /\ ~made[1].f.open /\ made[1].sum = Sentinel
    /\ made[2].f.open /\ made[2].f.read /\ made[2].f.sum32 = 0
    /\ made[2].sum = <<"0", "0", "0", "0", "0", "0", "0", "0">>

\* C14. The classifier gives one kind to every directory entry: File when
\* the entry has no type bit, Dir when its type bits are the directory bit
\* alone, Other for anything else, an entry with the directory and the
\* symlink bits included; the same entry always gets the same kind.
ClassifierExact ==
    \A i \in DOMAIN made :
        LET r == made[i] IN
        /\ r.ft \in AllTypes
        /\ r.ft = File <=> TypeBits(r.m) = {}
        /\ r.ft = Dir <=> TypeBits(r.m) = {fsModeDir}
        /\ r.ft = Other <=> (TypeBits(r.m) # {} /\ TypeBits(r.m) # {fsModeDir})
        /\ \A j \in DOMAIN made : made[j].m = r.m => made[j].ft = r.ft

\* An entry with the directory and symlink bits is Other, beside a
\* directory that is Dir.
ClassifierExactWitness ==
    /\ Len(made) = 2
    /\ TypeBits(made[1].m) = {fsModeDir, fsModeSymlink} /\ made[1].ft = Other
    /\ TypeBits(made[2].m) = {fsModeDir} /\ made[2].ft = Dir

\* the fields of an entry that its PrintMode enables, in the fixed order
ExpectedFields(e) ==
    (IF HasBit(e.mode, ModeType)
     THEN <<(CASE e.Type = File -> <<"f">> [] e.Type = Dir -> <<"d">> [] OTHER -> <<"?">>)>>
     ELSE <<>>)
    \o (IF HasBit(e.mode, ModeSize) THEN <<formatSize(e.Type, e.Size)>> ELSE <<>>)
    \o (IF HasBit(e.mode, ModeCRC32)
        THEN <<(<<"c", "r", "c", "=">> \o (IF e.Type = File THEN e.Checksum ELSE Sentinel))>>
        ELSE <<>>)

\* every field followed by one space
RECURSIVE EachThenSpace(_)
EachThenSpace(fields) ==
    IF fields = <<>> THEN <<>>
    ELSE Head(fields) \o <<" ">> \o EachThenSpace(Tail(fields))

\* C15. Entry.Format writes the enabled fields in the order kind, size,
\* checksum ("crc=" and 8 characters), one space between two fields and one
\* space behind the last; a field whose bit is unset, and a bit that names
\* no field, write nothing.
FormatFields ==
    \A i \in DOMAIN made :
        made[i].ok =>
            /\ made[i].text = EachThenSpace(ExpectedFields(made[i].ent))
            /\ HasBit(emode, ModeCRC32) =>
                  Len(ExpectedFields(made[i].ent)[Len(ExpectedFields(made[i].ent))]) = 12

\* Under a PrintMode with the kind, the checksum and a bit that names no
\* field, a regular file is written "f crc=0451ac5e ".
FormatFieldsWitness ==
    /\ emode = 8 + ModeType + ModeCRC32
    /\ Len(made) >= 1
    /\ made[1].ok /\ made[1].ft = File
    /\ made[1].text = <<"f", " ", "c", "r", "c", "=", "0", "4", "5", "1", "a", "c",
                        "5", "e", " ">>

\* C16. Size field: for a regular file of size s the field is the decimal
\* digits of s, all of them, then 'b', then spaces; it is 10 characters wide
\* when s has at most 9 digits and one more than the digits of s otherwise;
\* for any other kind it is 10 spaces whatever the size.
SizeFieldWidth ==
    \A i \in DOMAIN made :
        LET r == made[i]
            n == NumDigits(r.f.size)
        IN IF r.ft = File
           THEN /\ Len(r.sizeField) = (IF n <= 9 THEN 10 ELSE n + 1)
                /\ \A k \in 1..n : r.sizeField[k] \in {DecDigits[d] : d \in DOMAIN DecDigits}
                /\ DecValue(SubSeq(r.sizeField, 1, n)) = r.f.size
                /\ r.sizeField[n + 1] = "b"
                /\ AllSpaces(SubSeq(r.sizeField, n + 2, Len(r.sizeField)))
           ELSE Len(r.sizeField) = 10 /\ AllSpaces(r.sizeField)

\* A file of 10 digits has a field of 11 characters, one of 9 digits a field
\* of 10.
SizeFieldWidthWitness ==
    /\ Len(made) = 2
    /\ made[1].ft = File /\ made[1].f.size = 2147483647 /\ Len(made[1].sizeField) = 11
    /\ made[2].ft = File /\ made[2].f.size = 999999999 /\ Len(made[2].sizeField) = 10

\* the size of the entry is written wider than the padded field
SizeOverflows(r) ==
    r.ft = File /\ HasBit(emode, ModeSize) /\ NumDigits(r.ent.Size) > 9

\* C17. Column alignment: two entries built under the same PrintMode have
\* Format strings of the same length, whatever their kinds and checksums,
\* unless one is a regular file whose size overflows the field.
ColumnAlignment ==
    \A i, j \in DOMAIN made :
        (made[i].ok /\ made[j].ok) =>
            \/ Len(made[i].text) = Len(made[j].text)
            \/ SizeOverflows(made[i])
            \/ SizeOverflows(made[j])

\* Under ModeAll a file with a hexadecimal checksum and a directory with
\* the sentinel are of the same length.
ColumnAlignmentWitness ==
    /\ emode = ModeAll
    /\ Len(made) = 2
    /\ made[1].ok /\ made[1].ft = File /\ made[1].ent.Checksum # Sentinel
    /\ made[2].ok /\ made[2].ft = Dir
    /\ Len(made[1].text) = Len(made[2].text)

\* C18. An entry whose kind is not File has the size 0 and the 8-wide
\* 'n/a' sentinel as checksum, whatever the PrintMode.
NonFileSentinels ==
    \A i \in DOMAIN made :
        (made[i].ok /\ made[i].ft # File) =>
            /\ made[i].ent.Size = 0
            /\ made[i].ent.Checksum = Sentinel

\* What is written for an entry whose kind is not File is what is written
\* for one of size 0 with the sentinel as checksum.
NonFileRendered ==
    \A i \in DOMAIN made :
        (made[i].ok /\ made[i].ft # File) =>
            made[i].text = Format([made[i].ent EXCEPT !.Size = 0, !.Checksum = Sentinel])

NameIdx(n) == CHOOSE i \in DOMAIN NameSeq : NameSeq[i] = n

\* p comes before q in the depth-first pre-order with sorted children: p
\* is an ancestor of q, or at the first name where they part p has the
\* smaller one
Before(p, q) ==
    \/ IsUnder(q, p)
    \/ \E k \in 1..Len(p) :
          /\ k <= Len(q)
          /\ SubSeq(p, 1, k - 1) = SubSeq(q, 1, k - 1)
          /\ NameIdx(p[k]) < NameIdx(q[k])

\* the walk of the tree under the configuration c, no call failing
Reference(c) ==
    IF <<>> \notin Nodes THEN <<>>
    ELSE LET k == walkFrom(c, nil, <<[path |-> <<>>, mode |-> ModeOf(<<>>)]>>, FALSE,
                           [buf |-> <<>>, sink |-> <<>>, failed |-> FALSE])
         IN k.w.sink \o k.w.buf

\* C24. Traversal order: the first call of the callback is for the root; the
\* root, when it has a line, has the first one and its path is "."; the
\* lines come in depth-first pre-order with the children of a directory in
\* ascending order of their names, so a directory comes before the nodes
\* below it and no node has two lines; the calls come in the same order, a
\* node called twice only for the error of reading it; and a walk that ends
\* without an error has the lines, in the order, that the tree and the
\* configuration alone determine.
TraversalOrder ==
    /\ visited # <<>> => visited[1].path = <<>>
    /\ \A i, j \in DOMAIN visited :
          i < j => \/ Before(visited[i].path, visited[j].path)
                   \/ /\ j = i + 1
                      /\ visited[i].path = visited[j].path
                      /\ visited[j].outcome = "walkerr"
    /\ LET lines == LinesOf(Out)
       IN /\ \A i, j \in DOMAIN lines : i < j => Before(lines[i], lines[j])
          /\ \A i \in DOMAIN lines : lines[i] = <<>> => i = 1
    /\ \A i \in DOMAIN Out :
          (Out[i].kind = "rel" /\ Out[i].path = <<>>) => Out[i].text = <<".">>
    /\ Finished => LinesOf(sink) = LinesOf(Reference(cfg))

\* A walk has listed the root, the directory a, the node below it and then
\* b: four lines in pre-order.
TraversalOrderWitness ==
    /\ Finished
    /\ LinesOf(sink) = << <<>>, <<"a">>, <<"a", "b">>, <<"b">> >>
    /\ sink[2].text = <<".">>

RootExclusionRootKindAllowed ==
    (<<>> \in Nodes /\ PassType(<<>>)) =>
        \A i \in DOMAIN visited : visited[i].outcome = "root" => visited[i].path = <<>>

\* the configuration c without its filters
Unfiltered(c) ==
    [mode |-> c.mode, showRoot |-> TRUE, globs |-> <<>>, depth |-> 0, types |-> AllTypes]

FiltersIndependentRootKindAllowed ==
    (Finished /\ (cfg.showRoot \/ PassType(<<>>))) =>
        LinesOf(sink) =
            SelectSeq(LinesOf(Reference(Unfiltered(cfg))),
                      LAMBDA x : PassType(x) /\ PassDepth(x) /\ PassPattern(x) /\ PassRoot(x))

\* the node x passes every filter
PassAll(x) == PassType(x) /\ PassDepth(x) /\ PassPattern(x) /\ PassRoot(x)

\* C28. Lazy attribute resolution: a call of the callback asks Stat for a
\* node only when the node passes every filter and the PrintMode has the
\* size, and opens it only when moreover Stat did not fail, the node is a
\* regular file and the PrintMode has the checksum; a call fails at building
\* the entry only after a Stat it made. So no call of a walk whose PrintMode
\* has no size, and no call for a node that a filter excludes, fails for a
\* size or asks anything of the file system.
LazyResolution ==
    \A i \in DOMAIN visited :
        LET v == visited[i] IN
        /\ v.stat => /\ HasBit(cfg.mode, ModeSize)
                     /\ v.outcome # "walkerr" /\ PassAll(v.path)
        /\ v.open => /\ HasBit(cfg.mode, ModeCRC32)
                     /\ v.ft = File
                     /\ v.outcome = "kept" /\ PassAll(v.path)
        /\ v.outcome = "format" => v.stat
        /\ ~HasBit(cfg.mode, ModeSize) => (v.outcome # "format" /\ ~v.stat)
        /\ (v.outcome # "walkerr" /\ ~PassAll(v.path)) =>
              (v.outcome \notin {"format", "kept"} /\ ~v.stat /\ ~v.open)

\* Under ModeAll a regular file that a pattern excludes had vanished when
\* its call came, and the walk ended without an error; another regular file
\* was opened.
LazyResolutionWitness ==
    /\ Finished
    /\ cfg.mode = ModeAll
    /\ \E i \in DOMAIN visited :
          /\ visited[i].gone
          /\ visited[i].ft = File
          /\ visited[i].outcome = "pattern"
    /\ \E i \in DOMAIN visited : visited[i].stat /\ visited[i].open

\* Under the PrintMode of the kind alone a node that passes every filter had
\* vanished when its call came, and has its line.
KindOnlyNeverFails ==
    /\ Finished
    /\ cfg.mode = ModeType
    /\ \E i \in DOMAIN visited :
          /\ visited[i].gone
          /\ visited[i].outcome = "kept"
          /\ ~visited[i].stat /\ ~visited[i].open

\* ------------------------------------------------------------------------
\* Properties of whole calls
\* ------------------------------------------------------------------------

\* the characters a call has written
TextOf(r) == Text(r.out)

BackendEquivalenceErrorWitness ==
    /\ Len(runs) = 2
    /\ runs[2].fn = "WriteFS"
    /\ runs[1].err = "walk" /\ runs[2].err = "walk"
    /\ broken # {}
    /\ runs[2].out # <<>>

\* the pattern of the last option of a call
LastPat(r) == r.opts[Len(r.opts)].pat

IgnoreKeepsDescendants ==
    /\ Len(runs) = 2
    /\ runs[2].how = "ignore"
    /\ LastPat(runs[2]) = <<"a">>
    /\ runs[2].err = "nil"
    /\ <<"a">> \notin {LinesOf(runs[2].out)[i] : i \in DOMAIN LinesOf(runs[2].out)}
    /\ \E i \in DOMAIN runs[2].out : IsUnder(runs[2].out[i].path, <<"a">>)

\* the options of one kind of a list, in order
OfKind(opts, kinds) == SelectSeq(opts, LAMBDA x : x.kind \in kinds)

\* the last option of one kind of a list that has one
LastOf(opts, kind) == OfKind(opts, {kind})[Len(OfKind(opts, {kind}))]

Has(opts, kind) == OfKind(opts, {kind}) # <<>>

\* the kinds a Type string names
KindsNamed(t) ==
    {File : i \in {j \in DOMAIN t : t[j] = "f"}}
    \cup {Dir : i \in {j \in DOMAIN t : t[j] = "d"}}
    \cup {Other : i \in {j \in DOMAIN t : t[j] = "?"}}

\* C25. Options are folded left to right over the baseline: when every
\* option of the list is valid, each scalar setting is that of the last
\* option of its kind, whatever came before it, and the baseline's when the
\* list has none; the pattern list holds one pattern for each Ignore and
\* Match option, in the order of the options.
OptionsFold ==
    \A j \in DOMAIN runs :
        runs[j].err # "config" =>
            LET opts == runs[j].opts
                c == runs[j].cfg
                pats == OfKind(opts, {"Ignore", "Match"})
            IN /\ c.mode = IF Has(opts, "PrintMode") THEN LastOf(opts, "PrintMode").mode
                           ELSE ModeType + ModeSize
               /\ c.showRoot = IF Has(opts, "IncludeRoot") THEN LastOf(opts, "IncludeRoot").in
                               ELSE TRUE
               /\ c.depth = IF Has(opts, "Depth") THEN LastOf(opts, "Depth").d ELSE 0
               /\ c.types = IF Has(opts, "Type") THEN KindsNamed(LastOf(opts, "Type").t)
                            ELSE {File, Dir, Other}
               /\ Len(c.globs) = Len(pats)
               /\ \A i \in DOMAIN pats :
                     /\ c.globs[i].pat = pats[i].pat
                     /\ c.globs[i].moi = (pats[i].kind = "Match")

\* ModeAll and then ModeType: the call ran under ModeType alone.
OptionsFoldWitness ==
    /\ runs # <<>>
    /\ runs[1].err = "nil"
    /\ Len(runs[1].opts) = 2
    /\ runs[1].opts[1] = [kind |-> "PrintMode", mode |-> ModeAll]
    /\ runs[1].opts[2] = [kind |-> "PrintMode", mode |-> ModeType]
    /\ runs[1].cfg.mode = ModeType
    /\ \E i \in DOMAIN runs[1].out :
          runs[1].out[i].kind = "fields" /\ Len(runs[1].out[i].text) = 2

\* Depth(2) and then Depth(0): the call ran without a depth limit and has
\* listed a node of three segments.
DepthRestoredWitness ==
    /\ runs # <<>>
    /\ runs[1].err = "nil"
    /\ runs[1].opts = <<[kind |-> "Depth", d |-> 2], [kind |-> "Depth", d |-> 0]>>
    /\ runs[1].cfg.depth = 0
    /\ \E i \in DOMAIN runs[1].out : Len(runs[1].out[i].path) = 3

\* An Ignore and a Match option: both patterns are in effect, in order.
BothPatternsWitness ==
    /\ Len(runs) = 2
    /\ runs[2].how = "ignore"
    /\ runs[2].err = "nil"
    /\ Len(runs[2].cfg.globs) = 3
    /\ runs[2].cfg.globs[1].moi = match
    /\ runs[2].cfg.globs[3].moi = ignore

\* The options of a call in the opposite order, at most one of each scalar
\* kind among them, give the same error and the same output.
OrderOfOptions ==
    \A j \in DOMAIN runs :
        runs[j].how = "permuted" =>
            /\ runs[j].err = runs[1].err
            /\ runs[j].out = runs[1].out

\* Type("f") before and after Depth(1): the same lines.
OrderOfOptionsWitness ==
    /\ Len(runs) = 2
    /\ runs[2].how = "permuted"
    /\ runs[1].opts = <<[kind |-> "Type", t |-> <<"f">>], [kind |-> "Depth", d |-> 1]>>
    /\ runs[2].err = "nil"
    /\ runs[2].out # <<>>

\* ------------------------------------------------------------------------
\* Properties of concurrent calls
\* ------------------------------------------------------------------------

\* C29. Configuration resolution has no effect outside the call: whatever
\* calls run, one after the other or at the same time, the package-level
\* defaultCfg keeps its values and its empty pattern list, and the
\* configuration of each call is the one its own options give from the
\* baseline, at every moment of the call.
ConfigIsolation ==
    /\ pkg.defaultCfg = pkgInit.defaultCfg
    /\ Value(pkg.arrays, pkg.defaultCfg) =
          [mode |-> ModeType + ModeSize, showRoot |-> TRUE, globs |-> <<>>,
           depth |-> 0, types |-> {File, Dir, Other}]
    /\ \A i \in DOMAIN local :
          local[i].pc # "idle" =>
              Value(pkg.arrays, local[i].cfg) = optionLoop(local[i].opts, defaultCfg).cfg

\* Two callers have each appended two patterns, not the same ones, and both
\* walk.
ConfigIsolationWitness ==
    /\ local[1].pc = "walk" /\ local[2].pc = "walk"
    /\ Len(local[1].opts) = 2 /\ Len(local[2].opts) = 2
    /\ local[1].cfg.globs.len = 2 /\ local[2].cfg.globs.len = 2
    /\ View(pkg.arrays, local[1].cfg.globs) # View(pkg.arrays, local[2].cfg.globs)
    /\ local[1].cfg.globs.arr # local[2].cfg.globs.arr

\* the checksum of the file of the call g computed with no other call
Alone(g) == PadZero(Sum32Of(0, sums[g].file), crcChars)

\* no call but g has been made
RunsAlone(g) == \A x \in DOMAIN sums : x # g => sums[x].pc = "idle"

\* C30. The shared checksum buffer is not safe for concurrent use: a call
\* of checksum that copies through a buffer of its own returns the sum it
\* returns alone, in every interleaving with other calls, and so does a call
\* through the package-level iobuf as long as no other call has been made;
\* the witness is a call through iobuf, concurrent with another, that
\* returns another sum.
BufferPerCallSafe ==
    \A g \in DOMAIN sums :
        (sums[g].pc = "done" /\ (~pooled \/ RunsAlone(g))) => sums[g].sum = Alone(g)

\* Two concurrent calls through iobuf are over and one has returned a sum
\* that is not the sum of its file.
BufferPerCallSafeWitness ==
    /\ pooled
    /\ \A g \in DOMAIN sums : sums[g].pc = "done"
    /\ \E g \in DOMAIN sums : sums[g].sum # Alone(g)

\* Two concurrent calls, each through a buffer of its own, of files of more
\* bytes than the buffer holds, are over with the sums of their files.
OwnBuffersWitness ==
    /\ ~pooled
    /\ \A g \in DOMAIN sums :
          /\ sums[g].pc = "done"
          /\ Len(sums[g].file) > iobufLen
          /\ sums[g].sum = Alone(g)
    /\ sums[1].file # sums[2].file

====
